---- MODULE Spec2Model ----
(***************************************************************************)
(* Model of package trace (src/trace.go): producers enqueue commands on    *)
(* the buffered channel logstream, logRoutine goroutines take them off in  *)
(* FIFO order and run their do() methods, RegisterGroup / SetDefaultOutput *)
(* write the registry on the caller's goroutine, Done closes the channel   *)
(* and waits on the WaitGroup, reset makes a new channel and a new worker. *)
(*                                                                         *)
(* Go slice index i of groups is element i + 1 of the sequence groups.     *)
(* A panic ends the call that raised it (ret[p].ok = FALSE); the caller is *)
(* taken to have recovered it, so that what the panic left behind can be   *)
(* observed.  Group ids passed to the log and enable calls are ids of      *)
(* groups the registry holds at the time of the call.                      *)
(***************************************************************************)
EXTENDS Integers, Sequences, FiniteSets, TLC

\* ---------------------------------------------------------------- bounds
\* Capacity of the channel buffer; 1024 in the source (trace.go:37), scaled
\* down so that a full channel is reached.
chanBufSize == 2
\* Commands the logging producer of a logging run issues.
MaxCmds == 3
\* Sinks are 0 (os.Stdout) .. NumSinks.
NumSinks == 1

\* ------------------------------------------------------------- constants
DefaultGroupId == 0
trace == 1
info == 2

\* the producer goroutines
Procs == {1, 2}
Sinks == 0..NumSinks
Names == {"", "a", "b"}
Msgs == {"m"}

VARIABLES
  groups,        \* the registry: Seq of [name, output, enabled]
  traceEnabled,  \* the global trace flag
  chans,         \* every channel made so far: Seq of [buf, closed]
  logstream,     \* index in chans of the channel the variable logstream holds
  waitGroup,     \* the WaitGroup's counter
  workers,       \* logRoutine goroutines: Seq of [pc, ch, cur]
  written,       \* what each sink received: [Sinks -> Seq of [id, text]]
  pc,            \* where each producer is in its current call
  loc,           \* the locals of each producer's current call
  ret,           \* the outcome of each producer's last completed call
  clock,         \* ticks once per call that builds a command
  budget,        \* calls of each kind the producers may still make
  enqd,          \* history: [cmd, ch, p, waited] in the order the sends completed
  executed,      \* history: [id, w, wrote] in the order do() completed
  registered     \* history: each group as it was when it entered the registry

vars == <<groups, traceEnabled, chans, logstream, waitGroup, workers, written,
          pc, loc, ret, clock, budget, enqd, executed, registered>>

\* ---------------------------------------------------------------- helpers
NoCmd == [kind |-> "none", group |-> 0, on |-> FALSE, t |-> 0, msg |-> "", id |-> 0]
NoLoc == [cmd |-> NoCmd, ch |-> 0, g |-> [name |-> "", output |-> 0, enabled |-> FALSE],
          snap |-> {}, at |-> 0]
\* The outcome of a call: val is the command id (log and enable calls), the
\* returned index (RegisterGroup) or the sink (SetDefaultOutput); name is the
\* name RegisterGroup was called with; snap and at are what had been enqueued
\* and the clock when Done closed the channel.
Ret(op, ok, val) == [op |-> op, ok |-> ok, val |-> val, name |-> "", snap |-> {}, at |-> 0]
NoRet == Ret("none", TRUE, 0)

defaultGroup(output) == [name |-> "", output |-> output, enabled |-> TRUE]

\* groups[i] of the source
G(i) == groups[i + 1]
Ids == 0..(Len(groups) - 1)

Range(s) == {s[i] : i \in 1..Len(s)}
EnqIds == {e.cmd.id : e \in Range(enqd)}
ExecIds == {e.id : e \in Range(executed)}

\* Variant of traceEnabledDefault: tracing on from the start.
traceEnabledDefaultOn == TRUE

\* the value traceEnabled is declared with (trace.go:61)
traceEnabledDefault == FALSE

\* ------------------------------------------------------------------- Init
\* The state when package initialization has run: groups made empty with
\* capacity 4 (trace.go:58), traceEnabled false (trace.go:61), then init()
\* called reset() (trace.go:64-66), which put the default group in, made the
\* channel and started logRoutine, which has not run yet.
InitState(registry, load) ==
  /\ groups = registry
  /\ registered = registry
  /\ budget = load
  /\ traceEnabled = traceEnabledDefault
  /\ chans = <<[buf |-> <<>>, closed |-> FALSE]>>
  /\ logstream = 1
  /\ waitGroup = 1
  /\ workers = <<[pc |-> "start", ch |-> 0, cur |-> NoCmd]>>
  /\ written = [s \in Sinks |-> <<>>]
  /\ pc = [p \in Procs |-> "idle"]
  /\ loc = [p \in Procs |-> NoLoc]
  /\ ret = [p \in Procs |-> NoRet]
  /\ clock = 0
  /\ enqd = <<>>
  /\ executed = <<>>

\* Calls a producer makes in a run: cmds counts the calls that build a
\* command (the log calls, EnableGroup, EnableTrace).
Load(c, r, s, d, x) ==
  [cmds |-> c, register |-> r, sdo |-> s, done |-> d, reset |-> x]

\* The complete run: producer 1 issues a command, sets the default output and
\* calls Done; producer 2 registers a group and calls reset.
FullLoad == <<Load(1, 0, 1, 1, 0), Load(0, 1, 0, 0, 1)>>

Init == InitState(<<defaultGroup(0)>>, FullLoad)

\* --------------------------------------------------------------- commands
traceMsg(group, t, msg, id) ==
  [kind |-> "traceMsg", group |-> group, on |-> FALSE, t |-> t, msg |-> msg, id |-> id]
infoMsg(group, t, msg, id) ==
  [kind |-> "infoMsg", group |-> group, on |-> FALSE, t |-> t, msg |-> msg, id |-> id]
cmdEnabletrace(on, id) ==
  [kind |-> "cmdEnabletrace", group |-> 0, on |-> on, t |-> 0, msg |-> "", id |-> id]
cmdEnableGroup(group, on, id) ==
  [kind |-> "cmdEnableGroup", group |-> group, on |-> on, t |-> 0, msg |-> "", id |-> id]

\* The effect of one do(): the next registry, trace flag and sinks.
Eff(g, te, wr) == [groups |-> g, traceEnabled |-> te, written |-> wr]

\* Variant of printLog: a line for a named group is copied to the default
\* group's output as well.
printLogTee(group, t, msg, id) ==
  IF group = DefaultGroupId
  THEN [written EXCEPT ![G(DefaultGroupId).output] =
          Append(@, [id |-> id, text |-> <<t, msg>>])]
  ELSE [s \in Sinks |->
          IF s \in {G(group).output, G(DefaultGroupId).output}
          THEN Append(written[s], [id |-> id, text |-> <<t, G(group).name, msg>>])
          ELSE written[s]]

\* printLog (trace.go:150-158): the line for the default group has no name.
printLog(group, t, msg, id) ==
  IF group = DefaultGroupId
  THEN [written EXCEPT ![G(DefaultGroupId).output] =
          Append(@, [id |-> id, text |-> <<t, msg>>])]
  ELSE [written EXCEPT ![G(group).output] =
          Append(@, [id |-> id, text |-> <<t, G(group).name, msg>>])]

\* traceMsg.do (trace.go:84-88)
traceMsgDo(m) ==
  IF traceEnabled /\ G(m.group).enabled
  THEN Eff(groups, traceEnabled, printLog(m.group, m.t, m.msg, m.id))
  ELSE Eff(groups, traceEnabled, written)

\* infoMsg.do (trace.go:96-100)
infoMsgDo(m) ==
  IF G(m.group).enabled
  THEN Eff(groups, traceEnabled, printLog(m.group, m.t, m.msg, m.id))
  ELSE Eff(groups, traceEnabled, written)

\* Variant of cmdEnabletraceDo: the flag can be turned on but never off.
cmdEnabletraceDoSticky(c) == Eff(groups, traceEnabled \/ c.on, written)

\* cmdEnabletrace.do (trace.go:106-108)
cmdEnabletraceDo(c) == Eff(groups, c.on, written)

\* Variant of cmdEnableGroupDo: the index is ignored, every group is set.
cmdEnableGroupDoAll(c) ==
  Eff([i \in DOMAIN groups |-> [groups[i] EXCEPT !.enabled = c.on]], traceEnabled, written)

\* cmdEnableGroup.do (trace.go:115-117)
cmdEnableGroupDo(c) ==
  Eff([groups EXCEPT ![c.group + 1].enabled = c.on], traceEnabled, written)

\* i.do() of logRoutine: the dynamic dispatch on the command's type
do(c) ==
  CASE c.kind = "traceMsg" -> traceMsgDo(c)
    [] c.kind = "infoMsg" -> infoMsgDo(c)
    [] c.kind = "cmdEnabletrace" -> cmdEnabletraceDo(c)
    [] c.kind = "cmdEnableGroup" -> cmdEnableGroupDo(c)

\* ---------------------------------------------------------------- workers
Workers == 1..Len(workers)

\* logRoutine starts: "range logstream" reads the variable when the
\* goroutine first runs (trace.go:142)
WorkerStart(w) ==
  /\ workers[w].pc = "start"
  /\ workers' = [workers EXCEPT ![w].pc = "recv", ![w].ch = logstream]
  /\ UNCHANGED <<groups, traceEnabled, chans, logstream, waitGroup, written,
                 pc, loc, ret, clock, budget, enqd, executed, registered>>

\* Variant of Recv: the newest command is taken instead of the oldest.
RecvLast(w) ==
  /\ workers[w].pc = "recv"
  /\ chans[workers[w].ch].buf # <<>>
  /\ LET buf == chans[workers[w].ch].buf
     IN /\ workers' = [workers EXCEPT ![w].pc = "do", ![w].cur = buf[Len(buf)]]
        /\ chans' = [chans EXCEPT ![workers[w].ch].buf = SubSeq(buf, 1, Len(buf) - 1)]
  /\ UNCHANGED <<groups, traceEnabled, logstream, waitGroup, written,
                 pc, loc, ret, clock, budget, enqd, executed, registered>>

\* Variant of Recv: the channel hands out any buffered command, not the
\* oldest.
RecvAny(w) ==
  /\ workers[w].pc = "recv"
  /\ chans[workers[w].ch].buf # <<>>
  /\ \E k \in 1..Len(chans[workers[w].ch].buf) :
       LET buf == chans[workers[w].ch].buf
       IN /\ workers' = [workers EXCEPT ![w].pc = "do", ![w].cur = buf[k]]
          /\ chans' = [chans EXCEPT ![workers[w].ch].buf =
                         SubSeq(buf, 1, k - 1) \o SubSeq(buf, k + 1, Len(buf))]
  /\ UNCHANGED <<groups, traceEnabled, logstream, waitGroup, written,
                 pc, loc, ret, clock, budget, enqd, executed, registered>>

\* the receive of "for i := range logstream"
Recv(w) ==
  /\ workers[w].pc = "recv"
  /\ chans[workers[w].ch].buf # <<>>
  /\ workers' = [workers EXCEPT ![w].pc = "do",
                                ![w].cur = Head(chans[workers[w].ch].buf)]
  /\ chans' = [chans EXCEPT ![workers[w].ch].buf = Tail(@)]
  /\ UNCHANGED <<groups, traceEnabled, logstream, waitGroup, written,
                 pc, loc, ret, clock, budget, enqd, executed, registered>>

\* i.do() (trace.go:143)
Do(w) ==
  /\ workers[w].pc = "do"
  /\ LET c == workers[w].cur
         e == do(c)
     IN /\ groups' = e.groups
        /\ traceEnabled' = e.traceEnabled
        /\ written' = e.written
        /\ executed' = Append(executed,
                         [id |-> c.id, w |-> w, wrote |-> e.written # written])
  /\ workers' = [workers EXCEPT ![w].pc = "recv", ![w].cur = NoCmd]
  /\ UNCHANGED <<chans, logstream, waitGroup, pc, loc, ret, clock, budget,
                 enqd, registered>>

\* the range loop ends on a closed, drained channel; waitGroup.Done()
\* (trace.go:146)
WorkerExit(w) ==
  /\ workers[w].pc = "recv"
  /\ chans[workers[w].ch].buf = <<>>
  /\ chans[workers[w].ch].closed
  /\ workers' = [workers EXCEPT ![w].pc = "exited"]
  /\ waitGroup' = waitGroup - 1
  /\ UNCHANGED <<groups, traceEnabled, chans, logstream, written,
                 pc, loc, ret, clock, budget, enqd, executed, registered>>

\* -------------------------------------------------------------- producers
Spend(p, kind) == budget' = [budget EXCEPT ![p][kind] = @ - 1]

\* log (trace.go:120-135): the time is taken and the command built; the
\* send comes next
log(p, group, l, msg) ==
  /\ pc[p] = "idle"
  /\ budget[p].cmds > 0
  /\ Spend(p, "cmds")
  /\ clock' = clock + 1
  /\ LET cmd == IF l = trace THEN traceMsg(group, clock + 1, msg, clock + 1)
                ELSE infoMsg(group, clock + 1, msg, clock + 1)
     IN loc' = [loc EXCEPT ![p] = [NoLoc EXCEPT !.cmd = cmd]]
  /\ pc' = [pc EXCEPT ![p] = "send"]
  /\ UNCHANGED <<groups, traceEnabled, chans, logstream, waitGroup, workers,
                 written, ret, enqd, executed, registered>>

\* EnableGroup (trace.go:178-180): builds the command
EnableGroup(p, group, on) ==
  /\ pc[p] = "idle"
  /\ budget[p].cmds > 0
  /\ Spend(p, "cmds")
  /\ clock' = clock + 1
  /\ LET cmd == cmdEnableGroup(group, on, clock + 1)
     IN loc' = [loc EXCEPT ![p] = [NoLoc EXCEPT !.cmd = cmd]]
  /\ pc' = [pc EXCEPT ![p] = "send"]
  /\ UNCHANGED <<groups, traceEnabled, chans, logstream, waitGroup, workers,
                 written, ret, enqd, executed, registered>>

\* Variant of EnableTrace: the caller sets the flag itself as well.
EnableTraceDirect(p, on) ==
  /\ pc[p] = "idle"
  /\ budget[p].cmds > 0
  /\ Spend(p, "cmds")
  /\ clock' = clock + 1
  /\ traceEnabled' = on
  /\ loc' = [loc EXCEPT ![p] = [NoLoc EXCEPT !.cmd = cmdEnabletrace(on, clock + 1)]]
  /\ pc' = [pc EXCEPT ![p] = "send"]
  /\ UNCHANGED <<groups, chans, logstream, waitGroup, workers,
                 written, ret, enqd, executed, registered>>

\* EnableTrace (trace.go:183-185): builds the command
EnableTrace(p, on) ==
  /\ pc[p] = "idle"
  /\ budget[p].cmds > 0
  /\ Spend(p, "cmds")
  /\ clock' = clock + 1
  /\ LET cmd == cmdEnabletrace(on, clock + 1)
     IN loc' = [loc EXCEPT ![p] = [NoLoc EXCEPT !.cmd = cmd]]
  /\ pc' = [pc EXCEPT ![p] = "send"]
  /\ UNCHANGED <<groups, traceEnabled, chans, logstream, waitGroup, workers,
                 written, ret, enqd, executed, registered>>

\* The channel a send is on: logstream is read when the send is first tried,
\* a blocked send stays on the channel it blocked on.
SendChan(p) == IF pc[p] = "blocked" THEN loc[p].ch ELSE logstream

\* Variant of Send: a send on a closed channel goes through.
SendIgnoreClosed(p) ==
  /\ pc[p] \in {"send", "blocked"}
  /\ LET ch == SendChan(p)
         cmd == loc[p].cmd
     IN IF Len(chans[ch].buf) < chanBufSize
        THEN /\ chans' = [chans EXCEPT ![ch].buf = Append(@, cmd)]
             /\ enqd' = Append(enqd, [cmd |-> cmd, ch |-> ch, p |-> p,
                                        waited |-> pc[p] = "blocked"])
             /\ ret' = [ret EXCEPT ![p] = Ret(cmd.kind, TRUE, cmd.id)]
             /\ pc' = [pc EXCEPT ![p] = "idle"]
             /\ loc' = [loc EXCEPT ![p] = NoLoc]
        ELSE /\ pc[p] = "send"
             /\ pc' = [pc EXCEPT ![p] = "blocked"]
             /\ loc' = [loc EXCEPT ![p].ch = ch]
             /\ UNCHANGED <<chans, enqd, ret>>
  /\ UNCHANGED <<groups, traceEnabled, logstream, waitGroup, workers, written,
                 clock, budget, executed, registered>>

\* Variant of Send: a send that finds the channel full returns at once and
\* its command is lost.
SendDropWhenFull(p) ==
  /\ pc[p] \in {"send", "blocked"}
  /\ LET ch == SendChan(p)
         cmd == loc[p].cmd
     IN IF chans[ch].closed
        THEN /\ ret' = [ret EXCEPT ![p] = Ret(cmd.kind, FALSE, cmd.id)]
             /\ pc' = [pc EXCEPT ![p] = "idle"]
             /\ loc' = [loc EXCEPT ![p] = NoLoc]
             /\ UNCHANGED <<chans, enqd>>
        ELSE IF Len(chans[ch].buf) < chanBufSize
        THEN /\ chans' = [chans EXCEPT ![ch].buf = Append(@, cmd)]
             /\ enqd' = Append(enqd, [cmd |-> cmd, ch |-> ch, p |-> p,
                                        waited |-> pc[p] = "blocked"])
             /\ ret' = [ret EXCEPT ![p] = Ret(cmd.kind, TRUE, cmd.id)]
             /\ pc' = [pc EXCEPT ![p] = "idle"]
             /\ loc' = [loc EXCEPT ![p] = NoLoc]
        ELSE /\ ret' = [ret EXCEPT ![p] = Ret(cmd.kind, TRUE, cmd.id)]
             /\ pc' = [pc EXCEPT ![p] = "idle"]
             /\ loc' = [loc EXCEPT ![p] = NoLoc]
             /\ UNCHANGED <<chans, enqd>>
  /\ UNCHANGED <<groups, traceEnabled, logstream, waitGroup, workers, written,
                 clock, budget, executed, registered>>

\* Variant of Send: a send on a closed channel returns as if nothing had
\* happened, the command is dropped.
SendClosedReturns(p) ==
  /\ pc[p] \in {"send", "blocked"}
  /\ LET ch == SendChan(p)
         cmd == loc[p].cmd
     IN IF chans[ch].closed
        THEN /\ ret' = [ret EXCEPT ![p] = Ret(cmd.kind, TRUE, cmd.id)]
             /\ pc' = [pc EXCEPT ![p] = "idle"]
             /\ loc' = [loc EXCEPT ![p] = NoLoc]
             /\ UNCHANGED <<chans, enqd>>
        ELSE IF Len(chans[ch].buf) < chanBufSize
        THEN /\ chans' = [chans EXCEPT ![ch].buf = Append(@, cmd)]
             /\ enqd' = Append(enqd, [cmd |-> cmd, ch |-> ch, p |-> p,
                                        waited |-> pc[p] = "blocked"])
             /\ ret' = [ret EXCEPT ![p] = Ret(cmd.kind, TRUE, cmd.id)]
             /\ pc' = [pc EXCEPT ![p] = "idle"]
             /\ loc' = [loc EXCEPT ![p] = NoLoc]
        ELSE /\ pc[p] = "send"
             /\ pc' = [pc EXCEPT ![p] = "blocked"]
             /\ loc' = [loc EXCEPT ![p].ch = ch]
             /\ UNCHANGED <<chans, enqd, ret>>
  /\ UNCHANGED <<groups, traceEnabled, logstream, waitGroup, workers, written,
                 clock, budget, executed, registered>>

\* "logstream <- cmd" (trace.go:137, 179, 184): a send on a closed channel
\* panics (a blocked one too, when the channel is closed under it), a send on
\* a channel with room completes, a send on a full channel blocks
Send(p) ==
  /\ pc[p] \in {"send", "blocked"}
  /\ LET ch == SendChan(p)
         cmd == loc[p].cmd
     IN IF chans[ch].closed
        THEN /\ ret' = [ret EXCEPT ![p] = Ret(cmd.kind, FALSE, cmd.id)]
             /\ pc' = [pc EXCEPT ![p] = "idle"]
             /\ loc' = [loc EXCEPT ![p] = NoLoc]
             /\ UNCHANGED <<chans, enqd>>
        ELSE IF Len(chans[ch].buf) < chanBufSize
        THEN /\ chans' = [chans EXCEPT ![ch].buf = Append(@, cmd)]
             /\ enqd' = Append(enqd, [cmd |-> cmd, ch |-> ch, p |-> p,
                                        waited |-> pc[p] = "blocked"])
             /\ ret' = [ret EXCEPT ![p] = Ret(cmd.kind, TRUE, cmd.id)]
             /\ pc' = [pc EXCEPT ![p] = "idle"]
             /\ loc' = [loc EXCEPT ![p] = NoLoc]
        ELSE /\ pc[p] = "send"
             /\ pc' = [pc EXCEPT ![p] = "blocked"]
             /\ loc' = [loc EXCEPT ![p].ch = ch]
             /\ UNCHANGED <<chans, enqd, ret>>
  /\ UNCHANGED <<groups, traceEnabled, logstream, waitGroup, workers, written,
                 clock, budget, executed, registered>>

\* Variant of RegisterGroup: the name check skips the default group.
RegisterGroupSkipDefault(p, name, output, on) ==
  /\ pc[p] = "idle"
  /\ budget[p].register > 0
  /\ Spend(p, "register")
  /\ IF \E i \in Ids \ {DefaultGroupId} : name = G(i).name
     THEN /\ ret' = [ret EXCEPT ![p] = [Ret("RegisterGroup", FALSE, 0) EXCEPT !.name = name]]
          /\ UNCHANGED <<pc, loc>>
     ELSE /\ pc' = [pc EXCEPT ![p] = "rg_append"]
          /\ loc' = [loc EXCEPT ![p] =
                       [NoLoc EXCEPT !.g = [name |-> name, output |-> output, enabled |-> on]]]
          /\ UNCHANGED ret
  /\ UNCHANGED <<groups, traceEnabled, chans, logstream, waitGroup, workers,
                 written, clock, enqd, executed, registered>>

\* RegisterGroup, the name check (trace.go:212-216): the loop over groups
\* panics on an equal name; the appends come next
RegisterGroup(p, name, output, on) ==
  /\ pc[p] = "idle"
  /\ budget[p].register > 0
  /\ Spend(p, "register")
  /\ IF \E i \in Ids : name = G(i).name
     THEN /\ ret' = [ret EXCEPT ![p] = [Ret("RegisterGroup", FALSE, 0) EXCEPT !.name = name]]
          /\ UNCHANGED <<pc, loc>>
     ELSE /\ pc' = [pc EXCEPT ![p] = "rg_append"]
          /\ loc' = [loc EXCEPT ![p] =
                       [NoLoc EXCEPT !.g = [name |-> name, output |-> output, enabled |-> on]]]
          /\ UNCHANGED ret
  /\ UNCHANGED <<groups, traceEnabled, chans, logstream, waitGroup, workers,
                 written, clock, enqd, executed, registered>>

\* Variant of RegisterAppend: the new group is put in front.
RegisterAppendFront(p) ==
  /\ pc[p] = "rg_append"
  /\ groups' = <<loc[p].g>> \o groups
  /\ registered' = <<loc[p].g>> \o registered
  /\ pc' = [pc EXCEPT ![p] = "rg_return"]
  /\ UNCHANGED <<traceEnabled, chans, logstream, waitGroup, workers, written,
                 loc, ret, clock, budget, enqd, executed>>

\* RegisterGroup, the appends (trace.go:218-222)
RegisterAppend(p) ==
  /\ pc[p] = "rg_append"
  /\ groups' = Append(IF Len(groups) = 0 THEN <<defaultGroup(0)>> ELSE groups, loc[p].g)
  /\ registered' = Append(registered, loc[p].g)
  /\ pc' = [pc EXCEPT ![p] = "rg_return"]
  /\ UNCHANGED <<traceEnabled, chans, logstream, waitGroup, workers, written,
                 loc, ret, clock, budget, enqd, executed>>

\* RegisterGroup, "return len(groups) - 1" (trace.go:223)
RegisterReturn(p) ==
  /\ pc[p] = "rg_return"
  /\ ret' = [ret EXCEPT ![p] = [Ret("RegisterGroup", TRUE, Len(groups) - 1) EXCEPT !.name = loc[p].g.name]]
  /\ pc' = [pc EXCEPT ![p] = "idle"]
  /\ loc' = [loc EXCEPT ![p] = NoLoc]
  /\ UNCHANGED <<groups, traceEnabled, chans, logstream, waitGroup, workers,
                 written, clock, budget, enqd, executed, registered>>

\* SetDefaultOutput (trace.go:227-231): an empty registry gets the default
\* group; otherwise the new groupData is built, reading groups[0].enabled
SetDefaultOutput(p, output) ==
  /\ pc[p] = "idle"
  /\ budget[p].sdo > 0
  /\ Spend(p, "sdo")
  /\ IF Len(groups) = 0
     THEN /\ groups' = <<defaultGroup(output)>>
          /\ ret' = [ret EXCEPT ![p] = Ret("SetDefaultOutput", TRUE, output)]
          /\ UNCHANGED <<pc, loc>>
     ELSE /\ pc' = [pc EXCEPT ![p] = "sdo_store"]
          /\ loc' = [loc EXCEPT ![p] =
                       [NoLoc EXCEPT !.g = [name |-> "", output |-> output,
                                            enabled |-> G(0).enabled]]]
          /\ UNCHANGED <<groups, ret>>
  /\ UNCHANGED <<traceEnabled, chans, logstream, waitGroup, workers, written,
                 clock, enqd, executed, registered>>

\* SetDefaultOutput, the store "groups[0] = ..." (trace.go:231)
SetDefaultStore(p) ==
  /\ pc[p] = "sdo_store"
  /\ groups' = [groups EXCEPT ![1] = loc[p].g]
  /\ ret' = [ret EXCEPT ![p] = Ret("SetDefaultOutput", TRUE, loc[p].g.output)]
  /\ pc' = [pc EXCEPT ![p] = "idle"]
  /\ loc' = [loc EXCEPT ![p] = NoLoc]
  /\ UNCHANGED <<traceEnabled, chans, logstream, waitGroup, workers, written,
                 clock, budget, enqd, executed, registered>>

\* Done, close(logstream) (trace.go:173): closing a closed channel panics;
\* snap remembers what had been enqueued when the channel was closed
Done(p) ==
  /\ pc[p] = "idle"
  /\ budget[p].done > 0
  /\ Spend(p, "done")
  /\ IF chans[logstream].closed
     THEN /\ ret' = [ret EXCEPT ![p] = Ret("Done", FALSE, 0)]
          /\ UNCHANGED <<chans, pc, loc>>
     ELSE /\ chans' = [chans EXCEPT ![logstream].closed = TRUE]
          /\ pc' = [pc EXCEPT ![p] = "done_wait"]
          /\ loc' = [loc EXCEPT ![p] = [NoLoc EXCEPT !.snap = EnqIds, !.at = clock, !.ch = logstream]]
          /\ UNCHANGED ret
  /\ UNCHANGED <<groups, traceEnabled, logstream, waitGroup, workers, written,
                 clock, enqd, executed, registered>>

\* Variant of DoneReturn: Done does not wait for the worker.
DoneReturnNoWait(p) ==
  /\ pc[p] = "done_wait"
  /\ ret' = [ret EXCEPT ![p] = [Ret("Done", TRUE, 0) EXCEPT !.snap = loc[p].snap, !.at = loc[p].at]]
  /\ pc' = [pc EXCEPT ![p] = "idle"]
  /\ loc' = [loc EXCEPT ![p] = NoLoc]
  /\ UNCHANGED <<groups, traceEnabled, chans, logstream, waitGroup, workers,
                 written, clock, budget, enqd, executed, registered>>

\* Done, waitGroup.Wait() returns (trace.go:174)
DoneReturn(p) ==
  /\ pc[p] = "done_wait"
  /\ waitGroup = 0
  /\ ret' = [ret EXCEPT ![p] = [Ret("Done", TRUE, 0) EXCEPT !.snap = loc[p].snap, !.at = loc[p].at]]
  /\ pc' = [pc EXCEPT ![p] = "idle"]
  /\ loc' = [loc EXCEPT ![p] = NoLoc]
  /\ UNCHANGED <<groups, traceEnabled, chans, logstream, waitGroup, workers,
                 written, clock, budget, enqd, executed, registered>>

\* reset (trace.go:161-169)
reset(p) ==
  /\ pc[p] = "idle"
  /\ budget[p].reset > 0
  /\ Spend(p, "reset")
  /\ groups' = IF Len(groups) = 0 THEN <<defaultGroup(0)>> ELSE groups
  /\ chans' = Append(chans, [buf |-> <<>>, closed |-> FALSE])
  /\ logstream' = Len(chans) + 1
  /\ waitGroup' = waitGroup + 1
  /\ workers' = Append(workers, [pc |-> "start", ch |-> 0, cur |-> NoCmd])
  /\ ret' = [ret EXCEPT ![p] = Ret("reset", TRUE, 0)]
  /\ UNCHANGED <<traceEnabled, written, pc, loc, clock, enqd, executed, registered>>

\* ------------------------------------------------------------------- Next
Next ==
  \/ \E w \in Workers : WorkerStart(w)
  \/ \E w \in Workers : Recv(w)
  \/ \E w \in Workers : Do(w)
  \/ \E w \in Workers : WorkerExit(w)
  \/ \E p \in Procs, g \in Ids, l \in {trace, info}, m \in Msgs : log(p, g, l, m)
  \/ \E p \in Procs, g \in Ids, on \in BOOLEAN : EnableGroup(p, g, on)
  \/ \E p \in Procs, on \in BOOLEAN : EnableTrace(p, on)
  \/ \E p \in Procs : Send(p)
  \/ \E p \in Procs, n \in Names, o \in Sinks \ {0}, on \in BOOLEAN : RegisterGroup(p, n, o, on)
  \/ \E p \in Procs : RegisterAppend(p)
  \/ \E p \in Procs : RegisterReturn(p)
  \/ \E p \in Procs, o \in Sinks : SetDefaultOutput(p, o)
  \/ \E p \in Procs : SetDefaultStore(p)
  \/ \E p \in Procs : Done(p)
  \/ \E p \in Procs : DoneReturn(p)
  \/ \E p \in Procs : reset(p)

Spec == Init /\ [][Next]_vars

\* The complete run under the scheduling Go gives goroutines: a worker that
\* can take a step, and a call that can go on, eventually does.  Whether and
\* when a caller starts a call is up to the caller.  MaxWorkers is the number
\* of logRoutine goroutines a complete run can start (init and one reset).
MaxWorkers == 2

WorkerStep(w) ==
  /\ w \in Workers
  /\ (WorkerStart(w) \/ Recv(w) \/ Do(w) \/ WorkerExit(w))

Continue(p) ==
  Send(p) \/ RegisterAppend(p) \/ RegisterReturn(p) \/ SetDefaultStore(p) \/ DoneReturn(p)

Fairness ==
  /\ \A w \in 1..MaxWorkers : WF_vars(WorkerStep(w))
  /\ \A p \in Procs : WF_vars(Continue(p))

SpecFair == Init /\ [][Next]_vars /\ Fairness

\* A logging run: package initialization has registered group "a" (any
\* enabled value) on sink 1; producer 1 logs and toggles, producer 2 calls
\* Done.  The registry is not written by producers and
\* reset is not called.
LogLoad == <<Load(MaxCmds, 0, 0, 0, 0), Load(0, 0, 0, 1, 0)>>

InitLog ==
  \E en \in BOOLEAN :
    InitState(<<defaultGroup(0), [name |-> "a", output |-> 1, enabled |-> en]>>, LogLoad)

NextLog ==
  \/ \E w \in Workers : WorkerStart(w)
  \/ \E w \in Workers : Recv(w)
  \/ \E w \in Workers : Do(w)
  \/ \E w \in Workers : WorkerExit(w)
  \/ \E p \in Procs, g \in Ids, l \in {trace, info}, m \in Msgs : log(p, g, l, m)
  \/ \E p \in Procs, g \in Ids, on \in BOOLEAN : EnableGroup(p, g, on)
  \/ \E p \in Procs, on \in BOOLEAN : EnableTrace(p, on)
  \/ \E p \in Procs : Send(p)
  \/ \E p \in Procs : Done(p)
  \/ \E p \in Procs : DoneReturn(p)

SpecLog == InitLog /\ [][NextLog]_vars

\* A registration run: producer 1 registers groups one after the other,
\* producer 2 sets the default output meanwhile.
MaxRegs == 3
RegLoad == <<Load(0, MaxRegs, 0, 0, 0), Load(0, 0, 1, 0, 0)>>

InitReg == InitState(<<defaultGroup(0)>>, RegLoad)

NextReg ==
  \/ \E p \in Procs, n \in Names, o \in Sinks \ {0}, on \in BOOLEAN : RegisterGroup(p, n, o, on)
  \/ \E p \in Procs : RegisterAppend(p)
  \/ \E p \in Procs : RegisterReturn(p)
  \/ \E p \in Procs, o \in Sinks : SetDefaultOutput(p, o)
  \/ \E p \in Procs : SetDefaultStore(p)

SpecReg == InitReg /\ [][NextReg]_vars

\* A registration race: both producers register a group, producer 2 sets the
\* default output as well.
RaceLoad == <<Load(0, 1, 0, 0, 0), Load(0, 1, 1, 0, 0)>>

InitRace == InitState(<<defaultGroup(0)>>, RaceLoad)

SpecRace == InitRace /\ [][NextReg]_vars

\* An ordering run: both producers log and toggle at the same time on the
\* registry of a logging run; Done and reset are not called.
OrderLoad == <<Load(2, 0, 0, 0, 0), Load(1, 0, 0, 0, 0)>>

InitOrder ==
  \E en \in BOOLEAN :
    InitState(<<defaultGroup(0), [name |-> "a", output |-> 1, enabled |-> en]>>, OrderLoad)

NextOrder ==
  \/ \E w \in Workers : WorkerStart(w)
  \/ \E w \in Workers : Recv(w)
  \/ \E w \in Workers : Do(w)
  \/ \E p \in Procs, g \in Ids, l \in {trace, info}, m \in Msgs : log(p, g, l, m)
  \/ \E p \in Procs, g \in Ids, on \in BOOLEAN : EnableGroup(p, g, on)
  \/ \E p \in Procs, on \in BOOLEAN : EnableTrace(p, on)
  \/ \E p \in Procs : Send(p)

SpecOrder == InitOrder /\ [][NextOrder]_vars

\* ------------------------------------------------------ reading the history
LogKinds == {"traceMsg", "infoMsg"}
CmdKinds == LogKinds \cup {"cmdEnabletrace", "cmdEnableGroup"}
Enq == 1..Len(enqd)
IsLog(i) == enqd[i].cmd.kind \in LogKinds
EnqPos(id) == CHOOSE i \in Enq : enqd[i].cmd.id = id
WroteIds(s) == {written[s][i].id : i \in 1..Len(written[s])}
AllWroteIds == UNION {WroteIds(s) : s \in Sinks}
Max(S) == CHOOSE x \in S : \A y \in S : y <= x

\* The EnableTrace commands enqueued before command i, and the value the
\* last of them carries (the declared value if there is none).
TraceCmdsBefore(i) == {j \in 1..(i - 1) : enqd[j].cmd.kind = "cmdEnabletrace"}
TraceOn(i) ==
  IF TraceCmdsBefore(i) = {} THEN FALSE ELSE enqd[Max(TraceCmdsBefore(i))].cmd.on

\* The EnableGroup commands for command i's group enqueued before it, and the
\* value the last of them carries (the registration value if there is none).
GroupCmdsBefore(i) ==
  {j \in 1..(i - 1) : /\ enqd[j].cmd.kind = "cmdEnableGroup"
                      /\ enqd[j].cmd.group = enqd[i].cmd.group}
GroupOn(i) ==
  IF GroupCmdsBefore(i) = {} THEN registered[enqd[i].cmd.group + 1].enabled
  ELSE enqd[Max(GroupCmdsBefore(i))].cmd.on

\* Command i is a log command that the filter in force when it was enqueued
\* lets through.
Passes(i) == IsLog(i) /\ GroupOn(i) /\ (enqd[i].cmd.kind = "infoMsg" \/ TraceOn(i))

\* The sink of command i's group as registered.
SinkOf(i) == registered[enqd[i].cmd.group + 1].output

DoneOk(p) == ret[p].op = "Done" /\ ret[p].ok
IsCmdRet(p) == ret[p].op \in CmdKinds

\* ---------------------------------------------------------------- claims

\* C1: every command whose enqueue completed before Done closed the channel
\* has been executed by the worker when Done has returned.
C1_DoneDrains ==
  \A p \in Procs : DoneOk(p) => ret[p].snap \subseteq ExecIds

\* Done has returned after at least two commands were enqueued, one of which
\* wrote a line.
C1_Witness ==
  \E p \in Procs : /\ DoneOk(p)
                   /\ Cardinality(ret[p].snap) >= 2
                   /\ \E e \in Range(executed) : e.wrote

C3_TraceGate ==
  \A i \in Enq :
    /\ (enqd[i].cmd.kind = "traceMsg" /\ TraceCmdsBefore(i) # {} /\ ~TraceOn(i))
         => enqd[i].cmd.id \notin AllWroteIds
    /\ (enqd[i].cmd.kind = "infoMsg" /\ enqd[i].cmd.id \in ExecIds)
         => (enqd[i].cmd.id \in AllWroteIds <=> GroupOn(i))

\* EnableTrace(true), then EnableTrace(false), then a trace-level call for an
\* enabled group, which the worker has executed.
C3_Witness ==
  \E i, j, k \in Enq :
    /\ i < j /\ j < k
    /\ enqd[i].cmd.kind = "cmdEnabletrace" /\ enqd[i].cmd.on
    /\ enqd[j].cmd.kind = "cmdEnabletrace" /\ ~enqd[j].cmd.on
    /\ enqd[k].cmd.kind = "traceMsg" /\ GroupOn(k)
    /\ enqd[k].cmd.id \in ExecIds

\* C4: a log call for group g enqueued after EnableGroup(g, false) and before
\* the next EnableGroup(g, true) writes nothing; a call for a group with no
\* EnableGroup command of its own before it is written as its registration
\* and the trace flag say, and a group no EnableGroup command names keeps the
\* flag and the output it was registered with.
C4_GroupGate ==
  /\ \A i \in Enq :
       /\ (IsLog(i) /\ GroupCmdsBefore(i) # {} /\ ~GroupOn(i))
            => enqd[i].cmd.id \notin AllWroteIds
       /\ (IsLog(i) /\ GroupCmdsBefore(i) = {} /\ enqd[i].cmd.id \in ExecIds)
            => (enqd[i].cmd.id \in AllWroteIds <=>
                  /\ registered[enqd[i].cmd.group + 1].enabled
                  /\ (enqd[i].cmd.kind = "infoMsg" \/ TraceOn(i)))
  /\ \A h \in Ids :
       (\A j \in Enq : ~(enqd[j].cmd.kind = "cmdEnableGroup" /\ enqd[j].cmd.group = h))
         => G(h) = registered[h + 1]

\* EnableGroup(g, false), then an info-level call for g that was executed and
\* wrote nothing, then an info-level call for another group that was written.
C4_Witness ==
  \E i, j, k \in Enq :
    /\ i < j /\ j < k
    /\ enqd[i].cmd.kind = "cmdEnableGroup" /\ ~enqd[i].cmd.on
    /\ enqd[j].cmd.kind = "infoMsg" /\ enqd[j].cmd.group = enqd[i].cmd.group
    /\ enqd[j].cmd.id \in ExecIds \ AllWroteIds
    /\ enqd[k].cmd.kind = "infoMsg" /\ enqd[k].cmd.group # enqd[i].cmd.group
    /\ enqd[k].cmd.id \in AllWroteIds

\* A step of a producer goroutine: every call spends budget when it starts
\* and moves pc when it goes on.  The other steps are the workers'.
ProducerStep == pc' # pc \/ budget' # budget

\* C5 as stated: the registry and the trace flag are written by worker steps
\* only, never by a step of a producer.
C5_OnlyWorkerWrites ==
  [][(groups' # groups \/ traceEnabled' # traceEnabled) => ~ProducerStep]_vars

\* C5 amended: no producer step writes the trace flag or a named group's
\* entry; the only producer steps that write the registry are the append of
\* RegisterGroup and the store to groups[0] of SetDefaultOutput (the log
\* calls, EnableGroup and EnableTrace only enqueue).
C5_ProducerWrites ==
  [][ProducerStep =>
       /\ traceEnabled' = traceEnabled
       /\ \A i \in 2..Len(groups) : groups'[i] = groups[i]
       /\ groups' # groups =>
            \E p \in Procs : \/ pc[p] = "rg_append" /\ pc'[p] = "rg_return"
                             \/ pc[p] = "sdo_store" /\ pc'[p] = "idle"]_vars

\* The worker has turned tracing on, a group has been registered and the
\* default output replaced.
C5_Witness ==
  /\ traceEnabled
  /\ Len(groups) >= 2
  /\ G(DefaultGroupId).output # 0

\* C6 as stated: when Done has returned, every log or enable call that was
\* made before Done closed the channel has returned normally and its command
\* has been executed.
C6_BurstCompletes ==
  \A q \in Procs : DoneOk(q) =>
    \A p \in Procs : (IsCmdRet(p) /\ ret[p].val <= ret[q].at)
                       => (ret[p].ok /\ ret[p].val \in ExecIds)

\* C6 amended: when Done has returned, the commands enqueued are exactly those
\* enqueued before Done closed the channel and all of them have been executed;
\* a call whose send had not completed by then has panicked and its command
\* was neither enqueued nor executed, and no line was written for it.
C6_EnqueuedBurstCompletes ==
  \A q \in Procs : DoneOk(q) =>
    /\ EnqIds = ret[q].snap
    /\ ExecIds = ret[q].snap
    /\ AllWroteIds \subseteq ret[q].snap
    /\ \A p \in Procs : IsCmdRet(p) => (ret[p].ok <=> ret[p].val \in ret[q].snap)

\* Done has returned after a burst larger than the channel: as many commands
\* as the channel holds were enqueued, and a further call, made before Done
\* closed the channel, panicked.
C6_Witness ==
  \E q \in Procs :
    /\ DoneOk(q)
    /\ Cardinality(ret[q].snap) >= chanBufSize
    /\ \E p \in Procs : IsCmdRet(p) /\ ~ret[p].ok /\ ret[p].val <= ret[q].at

GroupNames == {G(i).name : i \in Ids}
RegCall(p) == pc[p] = "idle" /\ budget'[p].register < budget[p].register

\* C7: a RegisterGroup call with a name the registry holds (the empty name
\* included) panics and leaves the registry as it was; a call with a fresh
\* name goes on, appends its group at the next index and returns that index.
C7_DuplicatePanics ==
  /\ [](\A p \in Procs :
          (pc[p] = "idle" /\ ret[p].op = "RegisterGroup" /\ ret[p].ok)
            => /\ ret[p].val = Len(groups) - 1
               /\ ret[p].val >= 1
               /\ G(ret[p].val).name = ret[p].name)
  /\ [][\A p \in Procs :
          /\ RegCall(p) =>
               /\ groups' = groups
               /\ IF pc'[p] = "rg_append"
                  THEN loc'[p].g.name \notin GroupNames
                  ELSE /\ ret'[p].op = "RegisterGroup" /\ ~ret'[p].ok
                       /\ ret'[p].name \in GroupNames
          /\ (pc[p] = "rg_append" /\ pc'[p] = "rg_return") =>
               /\ Len(groups') = Len(groups) + 1
               /\ \A i \in 1..Len(groups) : groups'[i] = groups[i]
               /\ groups'[Len(groups) + 1].name = loc[p].g.name]_vars

\* Producer 1 has made all its calls, one of them panicked, and its last
\* call, made after the one that panicked, returned index 2.
C7_Witness ==
  /\ budget[1].register = 0
  /\ pc[1] = "idle"
  /\ ret[1].op = "RegisterGroup" /\ ret[1].ok /\ ret[1].val = 2

\* C8: no two groups of the registry have the same name.
C8_UniqueNames ==
  \A i, j \in Ids : i # j => G(i).name # G(j).name

\* C9: the registry is never empty and the group at index 0 has the empty
\* name.
C9_DefaultAtZero ==
  Len(groups) >= 1 /\ G(DefaultGroupId).name = ""

\* A group has been registered, the default output replaced, reset called, a
\* command executed and the channel closed by Done.
C9_Witness ==
  /\ Len(groups) = 2
  /\ G(DefaultGroupId).output # 0
  /\ Len(chans) = 2
  /\ executed # <<>>
  /\ chans[logstream].closed

\* No EnableTrace(true) command has been executed yet.
NoTraceOnExecuted ==
  \A i \in Enq : (enqd[i].cmd.kind = "cmdEnabletrace" /\ enqd[i].cmd.on)
                   => enqd[i].cmd.id \notin ExecIds

InBuf(id) ==
  UNION {{<<c, i>> : i \in {j \in 1..Len(chans[c].buf) : chans[c].buf[j].id = id}} :
           c \in 1..Len(chans)}
InHand(id) == {w \in Workers : workers[w].cur.id = id}
InExecuted(id) == {i \in 1..Len(executed) : executed[i].id = id}
Places(id) == Cardinality(InBuf(id)) + Cardinality(InHand(id)) + Cardinality(InExecuted(id))

SdoStep(p) ==
  \/ pc[p] = "idle" /\ budget'[p].sdo < budget[p].sdo
  \/ pc[p] = "sdo_store" /\ pc'[p] = "idle"

\* C12: a step of SetDefaultOutput leaves the length of the registry, every
\* group other than group 0, the name and the enabled flag of group 0, the
\* trace flag and the channels as they are.
C12_OnlyOutputChanges ==
  [][\A p \in Procs : SdoStep(p) =>
       /\ Len(groups') = Len(groups)
       /\ \A i \in 2..Len(groups) : groups'[i] = groups[i]
       /\ groups'[1].name = groups[1].name
       /\ groups'[1].enabled = groups[1].enabled
       /\ UNCHANGED <<traceEnabled, chans, logstream>>]_vars

\* The successful RegisterGroup calls the producers have returned from.
RegOk(p) == pc[p] = "idle" /\ ret[p].op = "RegisterGroup" /\ ret[p].ok

\* C13: a successful RegisterGroup call returned an index that is not 0, is
\* not the index another successful call returned, and denotes the group the
\* call registered.
C13_IdsUniqueAndStable ==
  \A p \in Procs : RegOk(p) =>
    /\ ret[p].val # DefaultGroupId
    /\ ret[p].val \in Ids
    /\ G(ret[p].val).name = ret[p].name
    /\ \A q \in Procs \ {p} : RegOk(q) => ret[q].val # ret[p].val

\* The clock when producer q's Done closed the channel, once it has.
ClosedAt(q) == IF pc[q] = "done_wait" THEN loc[q].at ELSE ret[q].at
HasClosed(q) == pc[q] = "done_wait" \/ DoneOk(q)

\* C14: once Done has closed the channel, a log or enable call made after the
\* close has panicked when it is over, its command was never enqueued or
\* executed and no line was written for it; the step that ends a send on a
\* closed channel is a panic that leaves the channels and the sinks alone.
C14_CallAfterDonePanics ==
  /\ [](\A q \in Procs : HasClosed(q) =>
          /\ \A id \in (ClosedAt(q) + 1)..clock :
               id \notin (EnqIds \cup ExecIds \cup AllWroteIds)
          /\ \A p \in Procs : (IsCmdRet(p) /\ ret[p].val > ClosedAt(q)) => ~ret[p].ok)
  /\ [][\A p \in Procs :
          (pc[p] \in {"send", "blocked"} /\ pc'[p] # pc[p] /\ chans[SendChan(p)].closed)
            => /\ pc'[p] = "idle"
               /\ ~ret'[p].ok /\ ret'[p].val = loc[p].cmd.id
               /\ UNCHANGED <<chans, enqd, executed, written, groups, traceEnabled>>]_vars

\* Done has returned; a call made after Done closed the channel has panicked.
C14_Witness ==
  \E q \in Procs :
    /\ DoneOk(q)
    /\ \E p \in Procs : IsCmdRet(p) /\ ret[p].val > ret[q].at /\ ~ret[p].ok

\* The commands in the hands of workers, between the receive and the end of
\* do().
Busy == {w \in Workers : workers[w].pc = "do"}

\* C15: the commands are executed in the order their sends completed, one at
\* a time: the k-th command executed is the k-th enqueued, at most one
\* command is in a worker's hands and it is the one enqueued right after the
\* commands executed so far (the effects of all commands before it are
\* complete, no later command has been looked at); an executed log command
\* was written exactly when the enable commands enqueued before it, by any
\* producer, let it pass; and when everything enqueued has been executed the
\* flags are those the last enable commands carry.
C15_FifoExecution ==
  /\ Len(executed) <= Len(enqd)
  /\ \A k \in 1..Len(executed) : executed[k].id = enqd[k].cmd.id
  /\ Cardinality(Busy) <= 1
  /\ \A w \in Busy : /\ Len(executed) < Len(enqd)
                      /\ workers[w].cur = enqd[Len(executed) + 1].cmd
  /\ \A k \in 1..Len(executed) :
       executed[k].wrote <=> Passes(k)
  /\ \A k \in 1..Len(executed) :
       IsLog(k) => (enqd[k].cmd.id \in WroteIds(SinkOf(k)) <=> Passes(k))
  /\ (Busy = {}) =>
       /\ traceEnabled = TraceOn(Len(executed) + 1)
       /\ \A g \in Ids :
            LET before == {j \in 1..Len(executed) : /\ enqd[j].cmd.kind = "cmdEnableGroup"
                                                     /\ enqd[j].cmd.group = g}
            IN G(g).enabled = IF before = {} THEN registered[g + 1].enabled
                              ELSE enqd[Max(before)].cmd.on

\* Two producers: the one whose call came second got its command, an
\* EnableGroup(g, false), into the channel first; the other's info-level call
\* for g, made earlier and enqueued later while g was registered enabled, was
\* executed and wrote nothing.
C15_Witness ==
  \E i, j \in Enq :
    /\ i < j
    /\ enqd[i].p # enqd[j].p
    /\ enqd[i].cmd.id > enqd[j].cmd.id
    /\ enqd[i].cmd.kind = "cmdEnableGroup" /\ ~enqd[i].cmd.on
    /\ enqd[j].cmd.kind = "infoMsg" /\ enqd[j].cmd.group = enqd[i].cmd.group
    /\ registered[enqd[j].cmd.group + 1].enabled
    /\ GroupCmdsBefore(i) = {}
    /\ enqd[j].cmd.id \in ExecIds \ AllWroteIds

\* The value the last EnableGroup command enqueued for group g carries (the
\* value g was registered with if there is none).
GroupCmds(g) == {j \in Enq : enqd[j].cmd.kind = "cmdEnableGroup" /\ enqd[j].cmd.group = g}
LastGroupOn(g) ==
  IF GroupCmds(g) = {} THEN registered[g + 1].enabled ELSE enqd[Max(GroupCmds(g))].cmd.on

\* Every command enqueued has been executed and no call is in progress.
Quiescent ==
  /\ Busy = {}
  /\ ExecIds = EnqIds
  /\ \A p \in Procs : pc[p] = "idle"

\* C16: when every enqueued command has been executed, each group's enabled
\* flag is the value of the last EnableGroup command enqueued for it (its
\* registration value if there was none) and the trace flag is the value of
\* the last EnableTrace command.
C16_NoLostUpdate ==
  Quiescent =>
    /\ \A g \in Ids : G(g).enabled = LastGroupOn(g)
    /\ traceEnabled = TraceOn(Len(enqd) + 1)

\* A reset call by producer p, made while no other call is in progress.
ResetStep(p) ==
  /\ budget'[p].reset < budget[p].reset
  /\ \A q \in Procs : pc[q] = "idle"

\* C17: when reset returns, every worker started before it has stopped, the
\* queue is empty, the registry holds the default group alone, enabled, and
\* the trace flag is false.
C17_ResetPostcondition ==
  [][\A p \in Procs : ResetStep(p) =>
       /\ \A w \in Workers : workers'[w].pc = "exited"
       /\ chans'[logstream'].buf = <<>>
       /\ Len(groups') = 1
       /\ groups'[1].name = "" /\ groups'[1].enabled
       /\ traceEnabled' = FALSE]_vars

\* The workers that have not stopped.
Running == {w \in Workers : workers[w].pc # "exited"}

\* C18: at most one worker is running, and so at most one is executing a
\* command.
C18_AtMostOneWorker ==
  Cardinality(Running) <= 1 /\ Cardinality(Busy) <= 1

\* Done has closed the channel logstream still holds, and no reset call is
\* left to be made.
DoneWaiting(p) ==
  /\ pc[p] = "done_wait"
  /\ loc[p].ch = logstream
  /\ \A q \in Procs : budget[q].reset = 0

\* C19: a Done call that has closed the channel eventually returns, also
\* when reset was called before it without a Done in between.
C19_DoneReturns ==
  \A p \in Procs : DoneWaiting(p) ~> (pc[p] = "idle")

\* The lines in the sinks: [s, a] is line a of sink s.
Lines == UNION {{<<s, a>> : a \in 1..Len(written[s])} : s \in Sinks}
LineOf(l) == written[l[1]][l[2]]

\* C20: every line in a sink is the line of one enqueued log command for a
\* group whose output that sink is, with the command's time, the group's
\* name (none for the default group) and the command's message; no two lines
\* are of the same command; a command has a line only if it has been
\* executed; the enable commands wrote nothing; and a step writes at most one
\* line, to one sink.
C20_NoSpuriousOutput ==
  /\ [](/\ \A l \in Lines :
             /\ LineOf(l).id \in EnqIds \cap ExecIds
             /\ LET c == enqd[EnqPos(LineOf(l).id)].cmd
                IN /\ c.kind \in LogKinds
                   /\ G(c.group).output = l[1]
                   /\ LineOf(l).text = IF c.group = DefaultGroupId THEN <<c.t, c.msg>>
                                        ELSE <<c.t, G(c.group).name, c.msg>>
        /\ \A l, m \in Lines : l # m => LineOf(l).id # LineOf(m).id
        /\ \A k \in 1..Len(executed) :
             executed[k].wrote =>
               enqd[EnqPos(executed[k].id)].cmd.kind \in LogKinds)
  /\ [][/\ Cardinality(Lines') <= Cardinality(Lines) + 1
        /\ \A s \in Sinks :
             /\ Len(written'[s]) >= Len(written[s])
             /\ SubSeq(written'[s], 1, Len(written[s])) = written[s]
        /\ \A w \in Workers :
             (workers[w].pc = "do" /\ workers'[w].pc = "recv"
                /\ workers[w].cur.kind \notin LogKinds) => written' = written]_vars

\* Both sinks hold a line and an EnableGroup command has been executed, which
\* wrote nothing.
C20_Witness ==
  /\ \A s \in Sinks : written[s] # <<>>
  /\ \E i \in Enq : enqd[i].cmd.kind = "cmdEnableGroup" /\ enqd[i].cmd.id \in ExecIds
  /\ Len(executed) >= 3

====
